---- MODULE Spec2Model ----
(***************************************************************************)
(* Model of src/app.tsx: the export -> upload -> open-mockup lifecycle of  *)
(* the App component.  The file holds two alternative implementations of   *)
(* the component (lines 67-275 and lines 299-549); `variant` selects the   *)
(* one a behaviour runs.                                                   *)
(*                                                                         *)
(* Text that the code encodes, trims or parses (titles, URLs) is a         *)
(* sequence of one-character strings.  Messages that the code only stores  *)
(* and tests for emptiness are TLA+ strings.                               *)
(***************************************************************************)
EXTENDS Integers, Sequences, FiniteSets, TLC

\* ------------------------------------------------------------------ bounds
MaxTitleLen == 1
MaxArgLen == 2
MaxRuns == 2
MaxManualOpens == 1

\* ------------------------------------------------------- optional values
\* undefined / null, and a value that is there
Undefined == [present |-> FALSE]
Some(v) == [present |-> TRUE, val |-> v]

\* --------------------------------------------------------------- strings
RECURSIVE StringsUpTo(_, _)
StringsUpTo(chars, n) ==
  IF n = 0 THEN {<<>>}
  ELSE LET shorter == StringsUpTo(chars, n - 1)
       IN shorter \cup {Append(s, c) : s \in shorter, c \in chars}

\* characters the modelled titles are made of: a letter, white space, the
\* two query delimiters, the escape character and a non-ASCII letter
TitleChars == {"a", " ", "&", "=", "%", "ã"}

WhiteSpace == {" "}

\* String.prototype.trim
RECURSIVE TrimStart(_)
TrimStart(s) ==
  IF s # <<>> /\ Head(s) \in WhiteSpace THEN TrimStart(Tail(s)) ELSE s

RECURSIVE TrimEnd(_)
TrimEnd(s) ==
  IF s # <<>> /\ s[Len(s)] \in WhiteSpace
  THEN TrimEnd(SubSeq(s, 1, Len(s) - 1)) ELSE s

trim(s) == TrimEnd(TrimStart(s))

\* JavaScript truthiness of an optional title (undefined and "" are falsy)
TruthyText(o) == o.present /\ o.val # <<>>

\* JavaScript truthiness of an optional message
TruthyMsg(o) == o.present /\ o.val # ""

\* ------------------------------------------------- encodeURIComponent
\* characters encodeURIComponent leaves as they are
Unreserved ==
  {"A", "B", "C", "D", "E", "F", "G", "H", "I", "J", "K", "L", "M", "N", "O",
   "P", "Q", "R", "S", "T", "U", "V", "W", "X", "Y", "Z", "a", "b", "c", "d",
   "e", "f", "g", "h", "i", "j", "k", "l", "m", "n", "o", "p", "q", "r", "s",
   "t", "u", "v", "w", "x", "y", "z", "0", "1", "2", "3", "4", "5", "6", "7",
   "8", "9", "-", "_", ".", "!", "~", "*", "'", "(", ")"}

\* characters of the model that encodeURIComponent escapes
Escaped == {" ", "&", "=", "%", "ã", "?", "/", ":"}

\* the UTF-8 bytes of a character, each byte as two hexadecimal digits
Utf8(c) ==
  CASE c = " " -> << <<"2", "0">> >>
    [] c = "&" -> << <<"2", "6">> >>
    [] c = "=" -> << <<"3", "D">> >>
    [] c = "%" -> << <<"2", "5">> >>
    [] c = "?" -> << <<"3", "F">> >>
    [] c = "/" -> << <<"2", "F">> >>
    [] c = ":" -> << <<"3", "A">> >>
    [] c = "ã" -> << <<"C", "3">>, <<"A", "3">> >>

RECURSIVE PercentBytes(_)
PercentBytes(bytes) ==
  IF bytes = <<>> THEN <<>>
  ELSE <<"%">> \o Head(bytes) \o PercentBytes(Tail(bytes))

EncodeChar(c) == IF c \in Unreserved THEN <<c>> ELSE PercentBytes(Utf8(c))

RECURSIVE encodeURIComponent(_)
encodeURIComponent(s) ==
  IF s = <<>> THEN <<>>
  ELSE EncodeChar(Head(s)) \o encodeURIComponent(Tail(s))

\* ------------------------------------------------- decodeURIComponent
URIError == <<"URIError">>

IsPrefix(p, s) == Len(p) <= Len(s) /\ SubSeq(s, 1, Len(p)) = p

\* decodeURIComponent: a '%' starts an escape that must be the UTF-8 bytes
\* of a character; every other character stands for itself
RECURSIVE decodeURIComponent(_)
decodeURIComponent(s) ==
  IF s = <<>> THEN <<>>
  ELSE IF Head(s) # "%"
  THEN LET rest == decodeURIComponent(Tail(s))
       IN IF rest = URIError THEN URIError ELSE <<Head(s)>> \o rest
  ELSE LET known == {c \in Escaped : IsPrefix(PercentBytes(Utf8(c)), s)}
       IN IF known = {} THEN URIError
          ELSE LET c == CHOOSE k \in known : TRUE
                   rest == decodeURIComponent(
                             SubSeq(s, Len(PercentBytes(Utf8(c))) + 1, Len(s)))
               IN IF rest = URIError THEN URIError ELSE <<c>> \o rest

\* --------------------------------------------------- reading a URL back
IndexOf(s, c) ==
  IF \E i \in 1..Len(s) : s[i] = c
  THEN CHOOSE i \in 1..Len(s) : s[i] = c /\ \A j \in 1..(i - 1) : s[j] # c
  ELSE 0

\* the text after the first '?'
QueryOf(url) ==
  LET i == IndexOf(url, "?")
  IN IF i = 0 THEN <<>> ELSE SubSeq(url, i + 1, Len(url))

\* the query split at every '&'
RECURSIVE SplitAmp(_)
SplitAmp(q) ==
  LET i == IndexOf(q, "&")
  IN IF i = 0 THEN <<q>>
     ELSE <<SubSeq(q, 1, i - 1)>> \o SplitAmp(SubSeq(q, i + 1, Len(q)))

PairKey(p) ==
  LET i == IndexOf(p, "=") IN IF i = 0 THEN p ELSE SubSeq(p, 1, i - 1)

PairValue(p) ==
  LET i == IndexOf(p, "=") IN IF i = 0 THEN <<>> ELSE SubSeq(p, i + 1, Len(p))

\* the raw (still encoded) value of the first parameter named key
RawParam(url, key) ==
  LET pairs == SplitAmp(QueryOf(url))
      hits == {i \in 1..Len(pairs) : PairKey(pairs[i]) = key}
  IN IF hits = {} THEN Undefined
     ELSE Some(PairValue(pairs[CHOOSE i \in hits : \A j \in hits : i <= j]))

\* the decoded value of the first parameter named key
Param(url, key) ==
  LET raw == RawParam(url, key)
  IN IF raw.present THEN Some(decodeURIComponent(raw.val)) ELSE Undefined

NumParams(url) == Len(SplitAmp(QueryOf(url)))

\* ------------------------------------------------------ program constants
MockupBase ==
  <<"h", "t", "t", "p", "s", ":", "/", "/", "a", "d", "m", "i", "n", ".",
    "l", "e", "v", "e", "b", "r", "a", "s", "a", ".", "c", "o", "m", "/",
    "i", "n", "t", "e", "r", "n", "a", "l", "/", "m", "o", "c", "k", "u", "p">>

modelo ==
  <<"2", " ", "C", "a", "n", "e", "c", "a", "s", " ", "P", "a", "d", "r", "ã", "o">>

cor == <<"B", "r", "a", "n", "c", "a">>

\* the literal "arte" used when no title is known
DefaultArte == <<"a", "r", "t", "e">>

KeyModelo == <<"m", "o", "d", "e", "l", "o">>
KeyArte == <<"a", "r", "t", "e">>
KeyCor == <<"c", "o", "r">>

UploadFallback == "Falha ao enviar a arte."
UnexpectedFallback == "Erro inesperado."

\* ------------------------------------------------------------ URL builder
\* a || b || c of JavaScript over optional text, the last operand a literal
OrText(a, b, c) ==
  IF TruthyText(a) THEN a.val ELSE IF b # <<>> THEN b ELSE c

MockupUrlOf(finalTitle) ==
  MockupBase
    \o <<"?">> \o KeyModelo \o <<"=">> \o encodeURIComponent(modelo)
    \o <<"&">> \o KeyArte \o <<"=">> \o encodeURIComponent(finalTitle)
    \o <<"&">> \o KeyCor \o <<"=">> \o encodeURIComponent(cor)

\* first implementation: titleParam || title || "arte"
mockupUrl(titleParam, titleState) ==
  MockupUrlOf(OrText(titleParam, titleState, DefaultArte))

\* second implementation: (artTitle && artTitle.trim()) || title || "arte"
buildMockupUrl(artTitle, titleState) ==
  LET trimmed == IF TruthyText(artTitle) THEN Some(trim(artTitle.val))
                 ELSE artTitle
  IN MockupUrlOf(OrText(trimmed, titleState, DefaultArte))


\* ------------------------------------------------------------------ state
VARIABLES
  variant,        \* 1: the component of lines 67-275, 2: that of lines 299-549
  loading,        \* useState(false)
  errorMessage,   \* useState<string | null>(null)
  resultInfo,     \* useState<ExportResponse | null>(null)
  title,          \* useState<string>("")
  runs,           \* the calls of handleExportAndSend that have not returned
  last,           \* the call of handleExportAndSend that returned last
  started,        \* number of calls of handleExportAndSend so far
  manualOpens,    \* number of clicks on the "open mockup" button so far
  pending,        \* promises of requestOpenExternalUrl nobody awaits
  unhandled,      \* origins of the rejections no handler caught
  urlArg,         \* argument of the URL builder called on its own
  urlOut          \* the URL that call returned

vars == <<variant, loading, errorMessage, resultInfo, title, runs, last,
          started, manualOpens, pending, unhandled, urlArg, urlOut>>

\* ----------------------------------------------------------------- inputs
\* characters of the titles the export dialog returns
RunChars == {"a", " "}

Titles == StringsUpTo(RunChars, MaxTitleLen)

\* result.title: absent, or any title
ExportTitles == {Undefined} \cup {Some(t) : t \in Titles}

\* result.exportBlobs: no file, or one exported file
ExportBlobs == {<<>>, <<"png">>}

\* result.status
ExportStatuses == {"completed", "aborted"}

\* the parsed body of the upload response: null, or an object whose ok and
\* error fields may be missing
JsonNull == [null |-> TRUE]

JsonBodies ==
  {JsonNull} \cup
  {[null |-> FALSE, ok |-> o, error |-> e] :
     o \in {Undefined, Some(TRUE), Some(FALSE)},
     e \in {Undefined, Some(""), Some("arquivo inválido")}}

\* error?.message of a thrown value
ThrownMessages == {Undefined, Some(""), Some("Failed to fetch")}

\* how a call of requestOpenExternalUrl behaves at the call itself
OpenBehaviours == {"throws", "promise"}

\* arguments of the URL builder
UrlArgs == {Undefined} \cup {Some(t) : t \in StringsUpTo(TitleChars, MaxArgLen)}

NoUrl == <<>>

\* ----------------------------------------------------------------- render
JsonOk_MissingIsOk(j) == ~j.null /\ (j.ok.present => j.ok.val)

\* json?.ok / resultInfo?.ok
JsonOk(j) == ~j.null /\ j.ok.present /\ j.ok.val

\* json?.error
JsonError(j) == IF j.null THEN Undefined ELSE j.error

\* the branch of the conditional the component renders
View ==
  IF loading THEN "loading"
  ELSE IF TruthyMsg(errorMessage) THEN "error"
  ELSE IF JsonOk(resultInfo) THEN "success"
  ELSE "idle"

\* the lifecycle phase the rendered branch stands for
Phase ==
  CASE View = "loading" ->
         IF \E i \in 1..Len(runs) : runs[i].pc = "export"
         THEN "Exporting" ELSE "Uploading"
    [] View = "error" -> "Failed"
    [] View = "success" -> "Success"
    [] View = "idle" -> "Idle"

StartOffered_WhileLoading == TruthyMsg(errorMessage) \/ ~JsonOk(resultInfo)

\* a button bound to handleExportAndSend is rendered
StartOffered == View \in {"error", "idle"}

\* a button bound to reset is rendered
ResetOffered == View \in {"error", "success"}

OpenOffered_Always == ~loading

\* the button that opens the mockup is rendered
OpenOffered == View = "success"

\* the URL builder of the running implementation
PreviewUrl(arg, titleState) ==
  IF variant = 1 THEN mockupUrl(arg, titleState)
  ELSE buildMockupUrl(arg, titleState)

\* ------------------------------------------------------------------- runs
NoRun ==
  [outcome |-> "none", from |-> "Idle", ctitle |-> <<>>,
   status |-> "pending", rtitle |-> Undefined, blobs |-> <<>>,
   sentTitle |-> Undefined, sentFiles |-> <<>>,
   respOk |-> FALSE, json |-> JsonNull, credCalls |-> 0, uploads |-> 0,
   opens |-> 0, openUrl |-> NoUrl, openFailed |-> FALSE,
   thrownAt |-> "none", thrown |-> Undefined]

\* the local state of a call of handleExportAndSend that awaits requestExport
NewRun ==
  [pc |-> "export", from |-> Phase, ctitle |-> title,
   status |-> "pending", rtitle |-> Undefined, blobs |-> <<>>,
   sentTitle |-> Undefined, sentFiles |-> <<>>,
   respOk |-> FALSE, json |-> JsonNull, credCalls |-> 0, uploads |-> 0,
   opens |-> 0, openUrl |-> NoUrl]

Without(s, i) == SubSeq(s, 1, i - 1) \o SubSeq(s, i + 1, Len(s))

Finished(r, outcome, openFailed, thrownAt, thrown) ==
  [outcome |-> outcome, from |-> r.from, ctitle |-> r.ctitle,
   status |-> r.status, rtitle |-> r.rtitle, blobs |-> r.blobs,
   sentTitle |-> r.sentTitle, sentFiles |-> r.sentFiles,
   respOk |-> r.respOk, json |-> r.json,
   credCalls |-> r.credCalls, uploads |-> r.uploads, opens |-> r.opens,
   openUrl |-> r.openUrl, openFailed |-> openFailed,
   thrownAt |-> thrownAt, thrown |-> thrown]

\* ------------------------------------------------------------------- Init
Init ==
  /\ variant \in {1, 2}
  /\ loading = FALSE
  /\ errorMessage = Undefined
  /\ resultInfo = JsonNull
  /\ title = <<>>
  /\ runs = <<>>
  /\ last = NoRun
  /\ started = 0
  /\ manualOpens = 0
  /\ pending = [start |-> 0, manual |-> 0]
  /\ unhandled = {}
  /\ urlArg = Undefined
  /\ urlOut = NoUrl


\* ---------------------------------------------------- pieces of the handler
ErrorAfterStart_Kept(em) == em

\* setErrorMessage(null) at the top of handleExportAndSend
ErrorAfterStart(em) == Undefined

TitleAfterStart_Cleared(t) == <<>>

\* handleExportAndSend does not call setTitle before the export completed
TitleAfterStart(t) == t

IsCompleted_Always(status) == TRUE

\* result.status !== "completed" is the cancellation test
IsCompleted(status) == status = "completed"

RecordedTitle_NoPlaceholder(rtitle) ==
  IF rtitle.present THEN rtitle.val ELSE <<>>

\* setTitle(result.title || "arte")
RecordedTitle(rtitle) == IF TruthyText(rtitle) THEN rtitle.val ELSE DefaultArte

\* title: result.title of the request body
TitleSent(rtitle) == rtitle

FilesSent_None(blobs) == <<>>

\* files: result.exportBlobs of the request body
FilesSent(blobs) == blobs

UploadAccepted_Inverted(respOk, json) == ~(respOk /\ JsonOk(json))

\* if (resp.ok && json?.ok)
UploadAccepted(respOk, json) == respOk /\ JsonOk(json)

RejectMessage_NoFallback(json) == JsonError(json)

\* setErrorMessage(json?.error || "Falha ao enviar a arte.")
RejectMessage(json) ==
  IF TruthyMsg(JsonError(json)) THEN JsonError(json) ELSE Some(UploadFallback)

CatchMessage_NoFallback(thrown) == thrown

\* setErrorMessage(error?.message || "Erro inesperado.")
CatchMessage(thrown) ==
  IF TruthyMsg(thrown) THEN thrown ELSE Some(UnexpectedFallback)

AfterOpenFailure_Escalated(em, thrown) == CatchMessage(thrown)

\* the empty catch around requestOpenExternalUrl: errorMessage stays as it is
AfterOpenFailure(em, thrown) == em

LoadingAfterFinally_Skipped(l) == l

\* finally { setLoading(false) }
LoadingAfterFinally(l) == FALSE

TitleAfterReset_Kept(t) == t

\* setTitle("") of reset
TitleAfterReset(t) == <<>>

\* ---------------------------------------------------------------- actions
\* a click on "Exportar e enviar" / "Tentar novamente": handleExportAndSend
\* up to its first await
Start ==
  /\ StartOffered
  /\ started < MaxRuns
  /\ errorMessage' = ErrorAfterStart(errorMessage)
  /\ resultInfo' = JsonNull
  /\ loading' = TRUE
  /\ title' = TitleAfterStart(title)
  /\ runs' = Append(runs, NewRun)
  /\ last' = NoRun
  /\ started' = started + 1
  /\ UNCHANGED <<variant, manualOpens, pending, unhandled, urlArg, urlOut>>

\* requestExport resolves
ExportResolved(i, status, rtitle, blobs) ==
  /\ runs[i].pc = "export"
  /\ LET r == [runs[i] EXCEPT !.status = status]
     IN IF ~IsCompleted(status)
        THEN /\ loading' = LoadingAfterFinally(FALSE)
             /\ runs' = Without(runs, i)
             /\ last' = Finished(r, "cancelled", FALSE, "none", Undefined)
             /\ UNCHANGED title
        ELSE /\ title' = RecordedTitle(rtitle)
             /\ runs' = [runs EXCEPT ![i] =
                           [r EXCEPT !.rtitle = rtitle, !.blobs = blobs,
                                     !.pc = "userToken",
                                     !.credCalls = @ + 1]]
             /\ UNCHANGED <<loading, last>>
  /\ UNCHANGED <<variant, errorMessage, resultInfo, started, manualOpens,
                 pending, unhandled, urlArg, urlOut>>

\* auth.getCanvaUserToken resolves
UserTokenResolved(i) ==
  /\ runs[i].pc = "userToken"
  /\ runs' = [runs EXCEPT ![i].pc = "designToken", ![i].credCalls = @ + 1]
  /\ UNCHANGED <<variant, loading, errorMessage, resultInfo, title, last,
                 started, manualOpens, pending, unhandled, urlArg, urlOut>>

\* getDesignToken resolves; fetch is called
DesignTokenResolved(i) ==
  /\ runs[i].pc = "designToken"
  /\ runs' = [runs EXCEPT ![i].pc = "fetch", ![i].uploads = @ + 1,
                           ![i].sentTitle = TitleSent(runs[i].rtitle),
                           ![i].sentFiles = FilesSent(runs[i].blobs)]
  /\ UNCHANGED <<variant, loading, errorMessage, resultInfo, title, last,
                 started, manualOpens, pending, unhandled, urlArg, urlOut>>

\* fetch resolves with a response whose HTTP status is or is not 2xx
FetchResolved(i, respOk) ==
  /\ runs[i].pc = "fetch"
  /\ runs' = [runs EXCEPT ![i].pc = "json", ![i].respOk = respOk]
  /\ UNCHANGED <<variant, loading, errorMessage, resultInfo, title, last,
                 started, manualOpens, pending, unhandled, urlArg, urlOut>>

\* resp.json() resolves: the rest of the try block up to the next await
JsonResolved(i, json, behaviour) ==
  /\ runs[i].pc = "json"
  /\ resultInfo' = json
  /\ LET r == [runs[i] EXCEPT !.json = json]
     IN IF UploadAccepted(r.respOk, json)
        THEN LET url == PreviewUrl(r.rtitle, r.ctitle)
                 o == [r EXCEPT !.opens = @ + 1, !.openUrl = url]
             IN /\ UNCHANGED <<urlArg, urlOut>>
                /\ IF behaviour = "throws"
                   THEN /\ errorMessage' = AfterOpenFailure(errorMessage, Undefined)
                        /\ loading' = LoadingAfterFinally(loading)
                        /\ runs' = Without(runs, i)
                        /\ last' = Finished(o, "ok", TRUE, "none", Undefined)
                        /\ UNCHANGED pending
                   ELSE IF variant = 1
                   THEN /\ loading' = LoadingAfterFinally(loading)
                        /\ runs' = Without(runs, i)
                        /\ last' = Finished(o, "ok", FALSE, "none", Undefined)
                        /\ pending' = [pending EXCEPT !.start = @ + 1]
                        /\ UNCHANGED errorMessage
                   ELSE /\ runs' = [runs EXCEPT ![i] = [o EXCEPT !.pc = "open"]]
                        /\ UNCHANGED <<loading, errorMessage, last, pending>>
        ELSE /\ errorMessage' = RejectMessage(json)
             /\ loading' = LoadingAfterFinally(loading)
             /\ runs' = Without(runs, i)
             /\ last' = Finished(r, "rejected", FALSE, "none", Undefined)
             /\ UNCHANGED <<pending, urlArg, urlOut>>
  /\ UNCHANGED <<variant, title, started, manualOpens, unhandled>>

\* second implementation: the awaited requestOpenExternalUrl settles
OpenSettled(i, rejected) ==
  /\ runs[i].pc = "open"
  /\ errorMessage' = IF rejected THEN AfterOpenFailure(errorMessage, Undefined)
                     ELSE errorMessage
  /\ loading' = LoadingAfterFinally(loading)
  /\ runs' = Without(runs, i)
  /\ last' = Finished(runs[i], "ok", rejected, "none", Undefined)
  /\ UNCHANGED <<variant, resultInfo, title, started, manualOpens, pending,
                 unhandled, urlArg, urlOut>>

\* an awaited call of the try block throws or rejects: catch and finally
Throw(i, thrown) ==
  /\ runs[i].pc \in {"export", "userToken", "designToken", "fetch", "json"}
  /\ errorMessage' = CatchMessage(thrown)
  /\ loading' = LoadingAfterFinally(loading)
  /\ runs' = Without(runs, i)
  /\ last' = Finished(runs[i], "threw", FALSE, runs[i].pc, thrown)
  /\ UNCHANGED <<variant, resultInfo, title, started, manualOpens, pending,
                 unhandled, urlArg, urlOut>>

\* a promise of requestOpenExternalUrl that nobody awaits settles
DetachedOpenSettled(origin, rejected) ==
  /\ pending[origin] > 0
  /\ pending' = [pending EXCEPT ![origin] = @ - 1]
  /\ unhandled' = IF rejected THEN unhandled \cup {origin} ELSE unhandled
  /\ UNCHANGED <<variant, loading, errorMessage, resultInfo, title, runs, last,
                 started, manualOpens, urlArg, urlOut>>

\* a click on "Limpar" / "Tentar novamente" of the success view: reset
Reset ==
  /\ ResetOffered
  /\ errorMessage' = Undefined
  /\ resultInfo' = JsonNull
  /\ title' = TitleAfterReset(title)
  /\ UNCHANGED <<variant, loading, runs, last, started, manualOpens, pending,
                 unhandled, urlArg, urlOut>>

\* a click on "Abrir mockup": first implementation calls
\* requestOpenExternalUrl inside try/catch without awaiting it, the second
\* awaits it inside openMockup, which has no catch.  The URL handed to the
\* host is PreviewUrl(Undefined, title); it is no state of the component.
ManualOpen(behaviour) ==
  /\ OpenOffered
  /\ manualOpens < MaxManualOpens
  /\ manualOpens' = manualOpens + 1
  /\ UNCHANGED <<urlArg, urlOut>>
  /\ IF behaviour = "promise"
     THEN /\ pending' = [pending EXCEPT !.manual = @ + 1]
          /\ UNCHANGED unhandled
     ELSE /\ unhandled' = IF variant = 1 THEN unhandled
                          ELSE unhandled \cup {"manual"}
          /\ UNCHANGED pending
  /\ UNCHANGED <<variant, loading, errorMessage, resultInfo, title, runs, last,
                 started>>

Next ==
  \/ Start
  \/ \E i \in 1..Len(runs), st \in ExportStatuses, t \in ExportTitles,
          b \in ExportBlobs : ExportResolved(i, st, t, b)
  \/ \E i \in 1..Len(runs) : UserTokenResolved(i)
  \/ \E i \in 1..Len(runs) : DesignTokenResolved(i)
  \/ \E i \in 1..Len(runs), ok \in BOOLEAN : FetchResolved(i, ok)
  \/ \E i \in 1..Len(runs), j \in JsonBodies, b \in OpenBehaviours :
       JsonResolved(i, j, b)
  \/ \E i \in 1..Len(runs), rej \in BOOLEAN : OpenSettled(i, rej)
  \/ \E i \in 1..Len(runs), m \in ThrownMessages : Throw(i, m)
  \/ \E o \in {"start", "manual"}, rej \in BOOLEAN : DetachedOpenSettled(o, rej)
  \/ Reset
  \/ \E b \in OpenBehaviours : ManualOpen(b)

Spec == Init /\ [][Next]_vars

\* the steps of a run that the event loop takes once the awaited call settles
RunStep ==
  \/ \E i \in 1..Len(runs), st \in ExportStatuses, t \in ExportTitles,
          b \in ExportBlobs : ExportResolved(i, st, t, b)
  \/ \E i \in 1..Len(runs) : UserTokenResolved(i)
  \/ \E i \in 1..Len(runs) : DesignTokenResolved(i)
  \/ \E i \in 1..Len(runs), ok \in BOOLEAN : FetchResolved(i, ok)
  \/ \E i \in 1..Len(runs), j \in JsonBodies, b \in OpenBehaviours :
       JsonResolved(i, j, b)
  \/ \E i \in 1..Len(runs), rej \in BOOLEAN : OpenSettled(i, rej)
  \/ \E i \in 1..Len(runs), m \in ThrownMessages : Throw(i, m)

\* every awaited call eventually returns or throws
FairSpec == Spec /\ WF_vars(RunStep)

\* ------------------------------------------ the URL builder on its own
\* the session titles the builder can find stored
StoredTitles == Titles \cup {DefaultArte}

UrlInit ==
  /\ variant \in {1, 2}
  /\ loading = FALSE
  /\ errorMessage = Undefined
  /\ resultInfo = JsonNull
  /\ title \in StoredTitles
  /\ runs = <<>>
  /\ last = NoRun
  /\ started = 0
  /\ manualOpens = 0
  /\ pending = [start |-> 0, manual |-> 0]
  /\ unhandled = {}
  /\ urlArg = Undefined
  /\ urlOut = NoUrl

\* one call of mockupUrl / buildMockupUrl
CallBuilder(arg) ==
  /\ urlArg' = arg
  /\ urlOut' = PreviewUrl(arg, title)
  /\ UNCHANGED <<variant, loading, errorMessage, resultInfo, title, runs, last,
                 started, manualOpens, pending, unhandled>>

UrlNext == \E arg \in UrlArgs : CallBuilder(arg)

UrlSpec == UrlInit /\ [][UrlNext]_vars

\* ----------------------------------------------------------------- claims
\* a call of handleExportAndSend returns in this step
RunReturns == last.outcome = "none" /\ last'.outcome # "none"

\* C1: a run whose export returned a status other than "completed" ends in
\* Idle with no error and no upload result, and called neither the
\* credentials, nor the upload endpoint, nor requestOpenExternalUrl.
C1_CancellationIsNoOp ==
  (last.outcome # "none" /\ last.status \notin {"pending", "completed"}) =>
    /\ last.outcome = "cancelled"
    /\ Phase = "Idle"
    /\ ~errorMessage.present
    /\ resultInfo = JsonNull
    /\ last.credCalls = 0
    /\ last.uploads = 0
    /\ last.opens = 0

C1_Witness ==
  /\ last.outcome = "cancelled"
  /\ last.from = "Failed"
  /\ Phase = "Idle"

\* C2: a run whose upload was accepted calls requestOpenExternalUrl exactly
\* once, with a URL whose arte parameter decodes to the title the run stored.
C2_SuccessOpensRecordedTitle ==
  [][(RunReturns /\ last'.outcome = "ok") =>
       /\ last'.opens = 1
       /\ Param(last'.openUrl, KeyArte) = Some(title')]_vars

\* C3: a failing requestOpenExternalUrl after an accepted upload leaves the
\* run in Success with no error message, whether it throws at the call,
\* rejects while awaited or rejects after the run returned.
C3_PreviewFailureKeepsSuccess ==
  [][/\ (RunReturns /\ last'.openFailed) =>
          (Phase' = "Success" /\ ~errorMessage'.present)
     /\ ("start" \in unhandled' /\ "start" \notin unhandled) =>
          (Phase' = Phase /\ errorMessage' = errorMessage)]_vars

C3_Witness == last.openFailed /\ Phase = "Success" /\ ~errorMessage.present

\* C4 as stated: a response with ok false ends the run in Failed with
\* lastError equal to the error field whenever the field is present.
C4_FailureCarriesErrorField ==
  [][(RunReturns /\ ~last'.json.null /\ last'.json.ok = Some(FALSE)) =>
       /\ Phase' = "Failed"
       /\ TruthyMsg(errorMessage')
       /\ last'.json.error.present => errorMessage' = last'.json.error]_vars

\* C4 as amended: a response with ok false ends the run in Failed with
\* lastError equal to the error field when the field is present and not
\* empty, and equal to the fallback literal otherwise; it is never empty.
C4_FailureCarriesMessage ==
  [][(RunReturns /\ ~last'.json.null /\ last'.json.ok = Some(FALSE)) =>
       /\ Phase' = "Failed"
       /\ TruthyMsg(errorMessage')
       /\ errorMessage' =
            IF last'.json.error.present /\ last'.json.error.val # ""
            THEN last'.json.error ELSE Some(UploadFallback)]_vars

C4_Witness ==
  /\ last.outcome = "rejected"
  /\ last.json = [null |-> FALSE, ok |-> Some(FALSE), error |-> Some("")]
  /\ errorMessage = Some(UploadFallback)
  /\ Phase = "Failed"

\* C5: reset, from Success or from Failed, yields Idle with no error, no
\* upload result and the empty title.
C5_ResetClearsEverything ==
  [][Reset =>
       /\ Phase \in {"Success", "Failed"}
       /\ Phase' = "Idle"
       /\ ~errorMessage'.present
       /\ resultInfo' = JsonNull
       /\ title' = <<>>]_vars

C5_Witness ==
  /\ last.outcome = "ok"
  /\ runs = <<>>
  /\ Phase = "Idle"
  /\ title = <<>>

\* C6: every failure of a step of handleExportAndSend is caught: a thrown
\* export, credential, transport or parse error ends the run in Failed with
\* a non-empty message, and no rejection of a step stays without a handler.
C6_EveryFailureCaught ==
  /\ []("start" \notin unhandled)
  /\ [][(RunReturns /\ last'.outcome = "threw") =>
          (Phase' = "Failed" /\ TruthyMsg(errorMessage'))]_vars

\* C7: at most one run is in flight; while one is, loading is set and no
\* start, retry or reset button is rendered; a run starts only from Idle,
\* Success or Failed with no run in flight.
C7_StartNotReentrant ==
  /\ [](/\ Len(runs) <= 1
        /\ runs # <<>> => (loading /\ ~StartOffered /\ ~ResetOffered))
  /\ [][Len(runs') > Len(runs) =>
          (runs = <<>> /\ Phase \in {"Idle", "Success", "Failed"})]_vars

C7_Witness ==
  /\ Len(runs) = 1
  /\ started = 2
  /\ runs[1].pc = "fetch"
  /\ Phase = "Uploading"

\* C8: every run that set loading clears it, whatever the exit path, and
\* loading is never left set with no run in flight.
C8_LoadingCleared ==
  /\ [](runs = <<>> => ~loading)
  /\ (loading ~> ~loading)

C8_Witness ==
  /\ last.outcome = "threw"
  /\ last.thrownAt = "json"
  /\ ~loading

\* C9: the arte parameter of the built URL decodes to the trimmed argument,
\* or to the default literal for an empty argument and no stored title, and
\* the encoded title leaves the modelo and cor parameters as they are.
C9_UrlRoundTrips ==
  (urlOut # NoUrl /\ urlArg.present) =>
    LET T == urlArg.val
        raw == RawParam(urlOut, KeyArte)
    IN /\ raw.present
       /\ \A i \in 1..Len(raw.val) : raw.val[i] \notin {"&", "="}
       /\ NumParams(urlOut) = 3
       /\ Param(urlOut, KeyModelo) = Some(modelo)
       /\ Param(urlOut, KeyCor) = Some(cor)
       /\ trim(T) # <<>> => Param(urlOut, KeyArte) = Some(trim(T))
       /\ (T = <<>> /\ title = <<>>) => Param(urlOut, KeyArte) = Some(DefaultArte)

\* C10: the arte value is the argument when it is not empty after trimming,
\* else the stored title when it is not empty, else the literal "arte"; a
\* URL is always returned.
C10_FallbackOrder ==
  urlOut # NoUrl =>
    LET arte == Param(urlOut, KeyArte)
    IN /\ arte.present
       /\ arte.val # URIError
       /\ IF urlArg.present /\ trim(urlArg.val) # <<>>
          THEN trim(arte.val) = trim(urlArg.val)
          ELSE IF title # <<>> THEN arte.val = title
          ELSE arte.val = DefaultArte


\* C11 as stated: a run whose response body has ok = true records the
\* response and ends in Success, whatever the HTTP status of the reply.
C11_BodyOkIsSuccess ==
  [][(RunReturns /\ last'.outcome \in {"ok", "rejected"}
        /\ JsonOk(last'.json)) =>
       (resultInfo' = last'.json /\ Phase' = "Success")]_vars

\* C11 as amended: a run whose response body has ok = true and whose HTTP
\* status is a success records the response and ends in Success; with any
\* other HTTP status the response is recorded and the run ends in Failed.
C11_AcceptedIsSuccess ==
  [][(RunReturns /\ last'.outcome \in {"ok", "rejected"}
        /\ JsonOk(last'.json)) =>
       /\ resultInfo' = last'.json
       /\ last'.respOk => (Phase' = "Success" /\ ~errorMessage'.present)
       /\ ~last'.respOk => Phase' = "Failed"]_vars

C11_Witness ==
  /\ last.outcome = "ok"
  /\ last.respOk
  /\ JsonOk(last.json)
  /\ resultInfo = last.json
  /\ Phase = "Success"

\* C12: a parsed response that is null or has no ok field ends the run in
\* Failed with the body's error field or the fallback literal, and the run
\* does not call requestOpenExternalUrl.
C12_MissingOkIsFailure ==
  [][(RunReturns /\ last'.outcome \in {"ok", "rejected"}
        /\ (last'.json.null \/ ~last'.json.ok.present)) =>
       /\ last'.outcome = "rejected"
       /\ Phase' = "Failed"
       /\ errorMessage' =
            IF TruthyMsg(JsonError(last'.json)) THEN JsonError(last'.json)
            ELSE Some(UploadFallback)
       /\ last'.opens = 0]_vars

C12_Witness ==
  /\ last.outcome = "rejected"
  /\ last.respOk
  /\ ~last.json.null
  /\ ~last.json.ok.present
  /\ Phase = "Failed"
  /\ errorMessage = Some(UploadFallback)


\* C13: the steps of a run happen in order: the export first, the user
\* token only after a completed export, the design token after the user
\* token, the upload after both tokens, requestOpenExternalUrl after the
\* parsed response; loading stays set until that call has settled.
C13_StepsInSequence ==
  /\ \A i \in 1..Len(runs) :
       LET r == runs[i]
       IN /\ r.pc = "export" =>
               (r.credCalls = 0 /\ r.uploads = 0 /\ r.opens = 0)
          /\ r.pc = "userToken" =>
               (r.status = "completed" /\ r.credCalls = 1
                  /\ r.uploads = 0 /\ r.opens = 0)
          /\ r.pc = "designToken" =>
               (r.credCalls = 2 /\ r.uploads = 0 /\ r.opens = 0)
          /\ r.pc \in {"fetch", "json"} =>
               (r.credCalls = 2 /\ r.uploads = 1 /\ r.opens = 0)
          /\ r.pc = "open" =>
               (r.credCalls = 2 /\ r.uploads = 1 /\ r.opens = 1 /\ loading)
  /\ (runs = <<>> /\ last.opens = 1 /\ pending.start > 0) => loading


\* C14: the title in the body of the upload request is the title the run
\* stored in the session: the export title, or the placeholder when the
\* export gave none.
C14_SentTitleIsRecorded ==
  \A i \in 1..Len(runs) :
    runs[i].uploads = 1 => runs[i].sentTitle = Some(title)


\* C15: when getCanvaUserToken or getDesignToken fails after a completed
\* export, the run calls neither fetch nor requestOpenExternalUrl and ends
\* in Failed with the failure's message, or the fallback literal when the
\* message is missing or empty.
C15_CredentialFailure ==
  [][(RunReturns /\ last'.outcome = "threw"
        /\ last'.thrownAt \in {"userToken", "designToken"}) =>
       /\ last'.status = "completed"
       /\ last'.uploads = 0
       /\ last'.opens = 0
       /\ Phase' = "Failed"
       /\ errorMessage' =
            IF last'.thrown.present /\ last'.thrown.val # ""
            THEN last'.thrown ELSE Some(UnexpectedFallback)]_vars

C15_Witness ==
  /\ last.outcome = "threw"
  /\ last.thrownAt = "designToken"
  /\ last.thrown = Some("Failed to fetch")
  /\ errorMessage = Some("Failed to fetch")
  /\ Phase = "Failed"

\* C16: a run whose credentials were acquired issues the upload request
\* exactly once, with the exported files as they are, none included, and
\* an upload request is issued only by a run at the step after the tokens,
\* so none follows a failed upload until handleExportAndSend is called again.
C16_UploadExactlyOnce ==
  /\ [](\A i \in 1..Len(runs) :
          /\ runs[i].uploads <= 1
          /\ runs[i].pc \in {"fetch", "json", "open"} =>
               (runs[i].uploads = 1 /\ runs[i].sentFiles = runs[i].blobs))
  /\ [][/\ (RunReturns /\ (last'.outcome \in {"ok", "rejected"}
                            \/ last'.thrownAt \in {"fetch", "json"})) =>
             (last'.uploads = 1 /\ last'.sentFiles = last'.blobs)
        /\ \A i \in 1..Len(runs) :
             (Len(runs') = Len(runs) /\ runs'[i].uploads # runs[i].uploads) =>
               (runs[i].pc = "designToken" /\ runs[i].uploads = 0
                  /\ runs'[i].uploads = 1)]_vars

C16_Witness ==
  /\ last.outcome = "rejected"
  /\ last.blobs = <<>>
  /\ last.sentFiles = <<>>
  /\ last.uploads = 1
  /\ runs = <<>>

\* C17: handleExportAndSend clears errorMessage and resultInfo before the
\* export dialog is asked for: while a run is in flight no error message is
\* set and no response of an earlier run is stored, and every run, a retry
\* from Failed included, begins at the export dialog.
C17_StartClearsErrorAndUpload ==
  /\ [](\A i \in 1..Len(runs) :
          /\ ~errorMessage.present
          /\ runs[i].pc # "open" => resultInfo = JsonNull
          /\ runs[i].pc = "open" => resultInfo = runs[i].json)
  /\ [][Len(runs') > Len(runs) =>
          /\ runs'[Len(runs')].pc = "export"
          /\ runs'[Len(runs')].credCalls = 0
          /\ runs'[Len(runs')].uploads = 0
          /\ ~errorMessage'.present
          /\ resultInfo' = JsonNull]_vars

C17_Witness ==
  /\ Len(runs) = 1
  /\ runs[1].from = "Failed"
  /\ runs[1].pc = "export"
  /\ ~errorMessage.present
  /\ resultInfo = JsonNull


\* a run calls requestOpenExternalUrl in this step
AutoOpenStep ==
  \E i \in 1..Len(runs) :
    /\ runs[i].pc = "json"
    /\ \/ (Len(runs') = Len(runs) /\ runs'[i].pc = "open")
       \/ (RunReturns /\ last'.opens = 1)

\* the "open mockup" button calls requestOpenExternalUrl in this step
ManualOpenStep == manualOpens' > manualOpens

\* C18 as stated: requestOpenExternalUrl is called only in the Success
\* phase, never in Idle, Exporting, Uploading or Failed, and never by a run
\* that was cancelled or that failed.
C18_OpenOnlyInSuccess ==
  /\ [](last.outcome \in {"cancelled", "rejected", "threw"} => last.opens = 0)
  /\ [][(AutoOpenStep \/ ManualOpenStep) =>
          (Phase = "Success" \/ Phase' = "Success")]_vars

\* C18 as amended: a run calls requestOpenExternalUrl only after it stored
\* an accepted response, with no error set and loading still set (which it
\* stays, in the second implementation, until the call settles); the button
\* calls it only in the Success phase; a run that was cancelled or that
\* failed never calls it.
C18_OpenOnlyAfterAcceptedUpload ==
  /\ [](/\ last.outcome \in {"cancelled", "rejected", "threw"} => last.opens = 0
        /\ \A i \in 1..Len(runs) :
             /\ runs[i].pc # "open" => runs[i].opens = 0
             /\ runs[i].pc = "open" =>
                  (runs[i].respOk /\ JsonOk(runs[i].json)))
  /\ [][/\ AutoOpenStep =>
             (loading /\ JsonOk(resultInfo') /\ ~errorMessage'.present
                /\ Phase' \in {"Success", "Uploading"}
                /\ (Phase' = "Uploading" => variant = 2))
        /\ ManualOpenStep =>
             (Phase = "Success" /\ Phase' = "Success")]_vars

C18_Witness ==
  /\ Len(runs) = 1
  /\ runs[1].pc = "open"
  /\ runs[1].opens = 1
  /\ Phase = "Uploading"
  /\ JsonOk(resultInfo)


\* C19: the stored title changes only when an export completes (to the
\* export title, or "arte" when it is missing or empty) and on reset (to
\* the empty title); starting a run, a cancelled export and a thrown export
\* error leave it as it is.
C19_TitleFrame ==
  [][/\ title' # title =>
          \/ (Reset /\ title' = <<>>)
          \/ \E i \in 1..Len(runs), t \in ExportTitles, b \in ExportBlobs :
               /\ ExportResolved(i, "completed", t, b)
               /\ title' = IF t.present /\ t.val # <<>> THEN t.val
                           ELSE DefaultArte
     /\ Len(runs') > Len(runs) => title' = title
     /\ (RunReturns /\ (last'.outcome = "cancelled"
                         \/ last'.thrownAt = "export")) =>
          (title' = title /\ title' = last'.ctitle)]_vars

C19_Witness ==
  /\ last.outcome = "cancelled"
  /\ last.from = "Failed"
  /\ title = <<"a">>
  /\ started = 2

\* C20: with no run in flight the displayed phase is Failed exactly when
\* errorMessage is not empty, Success exactly when errorMessage is unset and
\* resultInfo.ok is true, and then the stored title is not empty, and Idle
\* otherwise; errorMessage is never the empty string, and loading is unset.
C20_DisplayedPhase ==
  runs = <<>> =>
    /\ ~loading
    /\ errorMessage.present => errorMessage.val # ""
    /\ Phase \in {"Idle", "Success", "Failed"}
    /\ Phase = "Failed" <=> errorMessage.present
    /\ Phase = "Success" <=> (~errorMessage.present /\ JsonOk(resultInfo))
    /\ Phase = "Success" => title # <<>>

C20_Witness ==
  /\ runs = <<>>
  /\ Phase = "Failed"
  /\ JsonOk(resultInfo)
  /\ errorMessage = Some(UploadFallback)

====
